---- MODULE Spec2Model ----
(***************************************************************************)
(* The chat client of LegalRAG-Engine: api/client.js (streamChat and the   *)
(* session calls) and pages/Chat.jsx (the handlers that own sessions,      *)
(* activeId, messages, input and the streaming flag).                      *)
(*                                                                         *)
(* Text is a sequence of fragments.  A fragment is a piece of text that    *)
(* no chunk boundary of the model cuts: the line feed, a blank, or a piece *)
(* of a JSON text.  An optional value (null in the code) is a sequence of  *)
(* at most one element.                                                    *)
(***************************************************************************)
EXTENDS Integers, Sequences, FiniteSets, TLC

\* ------------------------------------------------------------------ bounds
\* the client specification (Spec): sends accepted, sessions created, chunks
\* the backend writes and fragments in a chunk
MaxSends == 2
MaxSessions == 2
ClientChunks == 1
ClientChunkLen == 2
\* session calls of the user (create, delete) awaiting their answer at a time
MaxPending == 1
\* the stream specification (StreamSpec)
StreamSends == 1
StreamSessions == 1
MaxChunks == 3
MaxChunkLen == 3
\* the line splitter specification (SplitSpec): bytes in the stream
MaxTextLen == 4
\* the session registry on its own: sessions the backend may create
RegistrySessions == 3

None == <<>>
Some(x) == <<x>>

\* ------------------------------------------------------------- wire format
LF == "\n"
SP == " "

\* JSON texts of the six event kinds (client.js header, lines 13-19)
JStrategy == "{type:strategy,strategy:complex}"
JReasoning == "{type:reasoning,subqueries:[q]}"
JTokenA == "{type:token,content:a}"
JTokenB1 == "{type:token,"
JTokenB2 == "content:b}"
JSources == "{type:sources,sources:[s]}"
JDone == "{type:done}"
JError == "{type:error,message:boom}"
\* other texts a line may carry
JPing == "{type:ping}"
JNull == "null"
JNumber == "7"
NotJson == "not json"

\* ------------------------------------------------- TextDecoder (stream: true)
\* Bytes: every fragment above is complete on its own; B1 B2 are the two bytes
\* of one two-byte character, which decodes to the character "e'".
B1 == "#1"
B2 == "#2"
TwoByteChar == "e'"
Replacement == "?"

RECURSIVE decode(_, _)
decode(pending, bytes) ==
    IF bytes = <<>> THEN [chars |-> <<>>, pending |-> pending]
    ELSE LET b == Head(bytes) IN
         IF pending # <<>>
         THEN IF b = B2
              THEN LET r == decode(<<>>, Tail(bytes))
                   IN [chars |-> <<TwoByteChar>> \o r.chars, pending |-> r.pending]
              ELSE LET r == decode(<<>>, bytes)
                   IN [chars |-> <<Replacement>> \o r.chars, pending |-> r.pending]
         ELSE IF b = B1 THEN decode(<<B1>>, Tail(bytes))
         ELSE LET r == decode(<<>>, Tail(bytes))
              IN [chars |-> <<(IF b = B2 THEN Replacement ELSE b)>> \o r.chars,
                  pending |-> r.pending]

\* --------------------------------------------------------- String.split("\n")
RECURSIVE split(_)
split(s) ==
    IF s = <<>> THEN << <<>> >>
    ELSE LET r == split(Tail(s)) IN
         IF Head(s) = LF THEN << <<>> >> \o r
         ELSE << <<Head(s)>> \o Head(r) >> \o Tail(r)

\* buffer += decoded; lines = buffer.split("\n"); buffer = lines.pop()
SplitBufferAlt(buffer, chars) ==
    LET segs == split(chars)
    IN [lines |-> SubSeq(segs, 1, Len(segs) - 1), buffer |-> segs[Len(segs)]]

SplitBuffer(buffer, chars) ==
    LET segs == split(buffer \o chars)
    IN [lines |-> SubSeq(segs, 1, Len(segs) - 1), buffer |-> segs[Len(segs)]]

\* ------------------------------------------------------------- String.trim()
RECURSIVE trimStart(_)
trimStart(s) ==
    IF s # <<>> /\ Head(s) = SP THEN trimStart(Tail(s)) ELSE s

RECURSIVE trimEnd(_)
trimEnd(s) ==
    IF s # <<>> /\ s[Len(s)] = SP THEN trimEnd(SubSeq(s, 1, Len(s) - 1)) ELSE s

trim(s) == trimEnd(trimStart(s))

\* ------------------------------------------------------------------ sources
\* SourceCard.jsx 6-11: the page of a source is a 0-indexed number, the
\* sentinel "—", or missing.
PageNumber(n) == [kind |-> "number", n |-> n]
PageSentinel == [kind |-> "sentinel", n |-> 0]
PageMissing == [kind |-> "undefined", n |-> 0]

\* the sources of the backend's sources event
SourceList ==
    << [title |-> "act.pdf", page |-> PageNumber(0)],
       [title |-> "Legal Document", page |-> PageSentinel] >>

displayPageRaw(source) ==
    IF source.page.kind # "undefined" /\ source.page.kind # "sentinel"
    THEN <<"p. ", source.page.n>>
    ELSE <<>>

\* SourceCard.jsx 32-34: the page shown, <<>> for none
displayPage(source) ==
    IF source.page.kind # "undefined" /\ source.page.kind # "sentinel"
    THEN <<"p. ", source.page.n + 1>>
    ELSE <<>>

\* ---------------------------------------------------------------- JSON.parse
\* The value of a JSON text: an object with its fields, null, a number; any
\* other text is a syntax error.  Blanks between JSON tokens are insignificant.
Obj(type) == [ok |-> TRUE, kind |-> "object", type |-> Some(type),
              strategy |-> None, subqueries |-> None, content |-> None,
              sources |-> None, message |-> None]

SyntaxError == [ok |-> FALSE, kind |-> "none", type |-> None,
                strategy |-> None, subqueries |-> None, content |-> None,
                sources |-> None, message |-> None]

Primitive(kind) == [SyntaxError EXCEPT !.ok = TRUE, !.kind = kind]

JSONparse(line) ==
    LET t == SelectSeq(line, LAMBDA f : f # SP) IN
    CASE t = <<JStrategy>> -> [Obj("strategy") EXCEPT !.strategy = Some("complex")]
      [] t = <<JReasoning>> -> [Obj("reasoning") EXCEPT !.subqueries = Some(<<"q">>)]
      [] t = <<JTokenA>> -> [Obj("token") EXCEPT !.content = Some("a")]
      [] t = <<JTokenB1, JTokenB2>> -> [Obj("token") EXCEPT !.content = Some("b")]
      [] t = <<JSources>> -> [Obj("sources") EXCEPT !.sources = Some(SourceList)]
      [] t = <<JDone>> -> Obj("done")
      [] t = <<JError>> -> [Obj("error") EXCEPT !.message = Some("boom")]
      [] t = <<JPing>> -> Obj("ping")
      [] t = <<JNull>> -> Primitive("null")
      [] t = <<JNumber>> -> Primitive("number")
      [] OTHER -> SyntaxError

\* ------------------------------------------------------------------- state
VARIABLES
    sessions,    \* Chat.jsx:63  cached session ids, in sidebar order
    activeId,    \* Chat.jsx:64  NoSession or a session id
    messages,    \* Chat.jsx:65  the message list
    input,       \* Chat.jsx:66  the input text
    streaming,   \* Chat.jsx:67  the busy flag
    sends,       \* one record per handleSend invocation that passed its guard
    nSends,      \* number of such invocations
    nChunks,     \* chunks the backend has emitted
    srv,         \* the backend's session ids
    newResp,     \* POST /sessions/new answers on their way to handleNewSession
    delResp,     \* DELETE answers on their way to handleDeleteSession
    listReq,     \* GET /sessions requests the backend has not served
    listResp,    \* GET /sessions answers on their way to setSessions
    env,         \* the environment: how much the user and the backend may do
    text,        \* line splitter runs: the byte stream
    runA,        \* line splitter runs: first chunking
    runB         \* line splitter runs: second chunking

vars == <<sessions, activeId, messages, input, streaming, sends, nSends, nChunks,
          srv, newResp, delResp, listReq, listResp, env, text, runA, runB>>

clientVars == <<sessions, activeId, messages, input, streaming>>
netVars == <<srv, newResp, delResp, listReq, listResp>>
splitVars == <<env, text, runA, runB>>

busy == streaming

NoSession == 0
SendIds == 1 .. MaxSends + StreamSends

\* ---------------------------------------------------------------- messages
WelcomeId == <<"welcome", 0>>
UserId(k) == <<"user", k>>
AiId(k) == <<"ai", k>>
FailId(k) == <<"fail", k>>

WelcomeText == "Welcome to LexRAG."
Warn == "(!) "
CannotConnect == "Could not connect to backend. Make sure it's running"
CannotReach == "Cannot reach backend. Is it running on port 8000?"

Message(id, role, content, loading) ==
    [id |-> id, role |-> role, content |-> content, loading |-> loading,
     streaming |-> FALSE, strategy |-> None, reasoning |-> None, sources |-> Some(<<>>)]

makeWelcome == Message(WelcomeId, "assistant", <<WelcomeText>>, FALSE)

\* setMessages((prev) => prev.map((m) => m.id === aiMsgId ? {...} : m))
onStrategy(msgs, aiMsgId, strategy) ==
    [i \in 1 .. Len(msgs) |->
        IF msgs[i].id = aiMsgId
        THEN [msgs[i] EXCEPT !.loading = FALSE, !.streaming = TRUE, !.strategy = strategy]
        ELSE msgs[i]]

onReasoningReloads(msgs, aiMsgId, subqueries) ==
    [i \in 1 .. Len(msgs) |->
        IF msgs[i].id = aiMsgId
        THEN [msgs[i] EXCEPT !.reasoning = subqueries, !.loading = TRUE]
        ELSE msgs[i]]

onReasoning(msgs, aiMsgId, subqueries) ==
    [i \in 1 .. Len(msgs) |->
        IF msgs[i].id = aiMsgId
        THEN [msgs[i] EXCEPT !.reasoning = subqueries]
        ELSE msgs[i]]

onTokenPrepend(msgs, aiMsgId, content) ==
    [i \in 1 .. Len(msgs) |->
        IF msgs[i].id = aiMsgId
        THEN [msgs[i] EXCEPT !.content = content \o msgs[i].content]
        ELSE msgs[i]]

onTokenAll(msgs, aiMsgId, content) ==
    [i \in 1 .. Len(msgs) |-> [msgs[i] EXCEPT !.content = msgs[i].content \o content]]

onToken(msgs, aiMsgId, content) ==
    [i \in 1 .. Len(msgs) |->
        IF msgs[i].id = aiMsgId
        THEN [msgs[i] EXCEPT !.content = msgs[i].content \o content]
        ELSE msgs[i]]

onSources(msgs, aiMsgId, srcs) ==
    [i \in 1 .. Len(msgs) |->
        IF msgs[i].id = aiMsgId
        THEN [msgs[i] EXCEPT !.sources = srcs]
        ELSE msgs[i]]

\* What the callbacks of one send have done so far: the message list, the busy
\* flag, the number of times the send released it, the listSessions() calls it
\* made, and how the read loop stands: "more" (keep reading), "done" or "error"
\* (returned after the callback), "threw" (an exception left the loop).
CbState(msgs, flag, released) ==
    [msgs |-> msgs, streaming |-> flag, released |-> released, lists |-> 0,
     out |-> "more"]

onDoneKeepsLoading(st, aiMsgId) ==
    [st EXCEPT !.msgs = [i \in 1 .. Len(st.msgs) |->
                            IF st.msgs[i].id = aiMsgId
                            THEN [st.msgs[i] EXCEPT !.streaming = FALSE]
                            ELSE st.msgs[i]],
               !.streaming = FALSE,
               !.released = st.released + 1,
               !.lists = st.lists + 1]

onDoneRefreshFirst(st, aiMsgId) ==
    [st EXCEPT !.msgs = [i \in 1 .. Len(st.msgs) |->
                            IF st.msgs[i].id = aiMsgId
                            THEN [st.msgs[i] EXCEPT !.streaming = FALSE, !.loading = FALSE]
                            ELSE st.msgs[i]],
               !.lists = st.lists + 1]

onDone(st, aiMsgId) ==
    [st EXCEPT !.msgs = [i \in 1 .. Len(st.msgs) |->
                            IF st.msgs[i].id = aiMsgId
                            THEN [st.msgs[i] EXCEPT !.streaming = FALSE, !.loading = FALSE]
                            ELSE st.msgs[i]],
               !.streaming = FALSE,
               !.released = st.released + 1,
               !.lists = st.lists + 1]

onErrorAppends(st, aiMsgId, message) ==
    [st EXCEPT !.msgs = [i \in 1 .. Len(st.msgs) |->
                            IF st.msgs[i].id = aiMsgId
                            THEN [st.msgs[i] EXCEPT
                                    !.content = st.msgs[i].content \o <<Warn>> \o message,
                                    !.loading = FALSE,
                                    !.streaming = FALSE]
                            ELSE st.msgs[i]],
               !.streaming = FALSE,
               !.released = st.released + 1]

onErrorKeepsLoading(st, aiMsgId, message) ==
    [st EXCEPT !.msgs = [i \in 1 .. Len(st.msgs) |->
                            IF st.msgs[i].id = aiMsgId
                            THEN [st.msgs[i] EXCEPT !.content = <<Warn>> \o message,
                                                    !.streaming = FALSE]
                            ELSE st.msgs[i]],
               !.streaming = FALSE,
               !.released = st.released + 1]

onError(st, aiMsgId, message) ==
    [st EXCEPT !.msgs = [i \in 1 .. Len(st.msgs) |->
                            IF st.msgs[i].id = aiMsgId
                            THEN [st.msgs[i] EXCEPT !.content = <<Warn>> \o message,
                                                    !.loading = FALSE,
                                                    !.streaming = FALSE]
                            ELSE st.msgs[i]],
               !.streaming = FALSE,
               !.released = st.released + 1]

\* --------------------------------------------------------------- streamChat
\* the cases of the switch that end in "return" instead of "break"
returnsOnDoneOnly(type) == type = Some("done")

returns(type) == type \in {Some("done"), Some("error")}

\* switch (event.type) { ... }
dispatch(st, aiMsgId, event) ==
    LET after ==
          CASE event.type = Some("strategy") ->
                  [st EXCEPT !.msgs = onStrategy(st.msgs, aiMsgId, event.strategy)]
            [] event.type = Some("reasoning") ->
                  [st EXCEPT !.msgs = onReasoning(st.msgs, aiMsgId, event.subqueries)]
            [] event.type = Some("token") ->
                  [st EXCEPT !.msgs = onToken(st.msgs, aiMsgId, event.content)]
            [] event.type = Some("sources") ->
                  [st EXCEPT !.msgs = onSources(st.msgs, aiMsgId, event.sources)]
            [] event.type = Some("done") -> onDone(st, aiMsgId)
            [] event.type = Some("error") -> onError(st, aiMsgId, event.message)
            [] OTHER -> st
    IN IF returns(event.type) THEN [after EXCEPT !.out = event.type[1]] ELSE after

\* for (const raw of lines) { ... }
RECURSIVE forLines(_, _, _)
forLines(lines, aiMsgId, st) ==
    IF lines = <<>> \/ st.out # "more" THEN st
    ELSE LET line == trim(Head(lines)) IN
         IF line = <<>> THEN forLines(Tail(lines), aiMsgId, st)
         ELSE LET event == JSONparse(line) IN
              IF ~event.ok THEN forLines(Tail(lines), aiMsgId, st)
              ELSE IF event.kind = "null" THEN [st EXCEPT !.out = "threw"]
              ELSE forLines(Tail(lines), aiMsgId, dispatch(st, aiMsgId, event))

\* ------------------------------------------------------------- the backend
\* The lines a response body is made of: the event the backend means (ev) and
\* the text it writes for it.
Line(ev, txt) == [ev |-> ev, text |-> txt]

AllLines ==
    { Line("strategy", <<JStrategy>>), Line("reasoning", <<JReasoning>>),
      Line("tokenA", <<JTokenA>>), Line("tokenB", <<JTokenB1, JTokenB2>>),
      Line("sources", <<JSources>>), Line("done", <<JDone>>),
      Line("error", <<JError>>), Line("ping", <<JPing>>),
      Line("null", <<JNull>>), Line("number", <<JNumber>>),
      Line("notjson", <<NotJson>>), Line("blank", <<SP>>), Line("empty", <<>>) }

\* the lines of the client specification's backend
FewLines == { l \in AllLines : l.ev \in {"tokenA", "done", "error"} }

\* The line the backend is writing: what is left of it, its line feed included.
LineStart == [rest |-> <<>>, ev |-> "none"]

\* The chunks of at most n fragments the backend may write next: the chunk (c),
\* where it leaves the current line (w), the lines it completes (evs).
RECURSIVE Chunks(_, _, _)
Chunks(lines, w, n) ==
    IF n = 0 THEN {}
    ELSE IF w.rest = <<>>
    THEN UNION { Chunks(lines, [rest |-> l.text \o <<LF>>, ev |-> l.ev], n) : l \in lines }
    ELSE LET last == Len(w.rest) = 1
             w1 == IF last THEN LineStart ELSE [w EXCEPT !.rest = Tail(w.rest)]
             e1 == IF last THEN <<w.ev>> ELSE <<>>
         IN { [c |-> <<Head(w.rest)>>, w |-> w1, evs |-> e1] }
            \cup { [c |-> <<Head(w.rest)>> \o g.c, w |-> g.w, evs |-> e1 \o g.evs] :
                   g \in Chunks(lines, w1, n - 1) }

\* where a chunk boundary may leave the line the backend is writing
WireStates ==
    {LineStart} \cup
    UNION { { [rest |-> SubSeq(l.text \o <<LF>>, i, Len(l.text) + 1), ev |-> l.ev] :
              i \in 2 .. Len(l.text) + 1 } : l \in AllLines }

ClientChunkTable == [w \in WireStates |-> Chunks(FewLines, w, ClientChunkLen)]
StreamChunkTable == [w \in WireStates |-> Chunks(AllLines, w, MaxChunkLen)]

ClientEnv == [name |-> "client", sends |-> MaxSends, sessions |-> MaxSessions,
              chunks |-> ClientChunks]
StreamEnv == [name |-> "stream", sends |-> StreamSends, sessions |-> StreamSessions,
              chunks |-> MaxChunks]
SplitEnv == [name |-> "split", sends |-> 0, sessions |-> 0, chunks |-> 0]
RegistryEnv == [name |-> "registry", sends |-> 0, sessions |-> RegistrySessions,
                chunks |-> 0]

NextChunks(w) ==
    IF env.name = "client" THEN ClientChunkTable[w] ELSE StreamChunkTable[w]

\* The fetch of POST /chat: it rejects (no answer), or answers with a status
\* and a body; the body of an error answer may be JSON with a detail, JSON
\* without one, or no JSON at all.
NoAnswer == [answered |-> FALSE, ok |-> FALSE, status |-> "", statusText |-> "",
             json |-> None]
Answer(ok, status, statusText, json) ==
    [answered |-> TRUE, ok |-> ok, status |-> status, statusText |-> statusText,
     json |-> json]

FewResponses == { NoAnswer, Answer(TRUE, "200", "OK", None) }

ChatResponses ==
    { NoAnswer,
      Answer(TRUE, "200", "OK", None),
      Answer(FALSE, "404", "Not Found", Some([detail |-> Some("Session not found")])),
      Answer(FALSE, "500", "Internal Server Error", Some([detail |-> None])),
      Answer(FALSE, "502", "Bad Gateway", None) }

errorDetailStatusOnly(res) == res.statusText

\* let detail = res.statusText; try { detail = (await res.json()).detail ?? detail } catch {}
errorDetail(res) ==
    IF res.json = None THEN res.statusText
    ELSE IF res.json[1].detail = None THEN res.statusText
    ELSE res.json[1].detail[1]

backendError(res) == <<"Backend error ", res.status, ": ", errorDetail(res)>>

\* ------------------------------------------------------------------- sends
\* A handleSend invocation that passed its guard.  pc is where it is suspended:
\* "creating" (await createSession), "fetching" (await fetch), "reading"
\* (await reader.read), or how it ended: "returned", "threw".  The fields from
\* wire on record what the backend and the send did, for the properties: the
\* line the backend is writing, the token texts (sentToks) and the other event
\* kinds (sentKinds) of the lines it completed before its first done, error or
\* null line (sentEnd), whether it completed a line after that one (sentAfter),
\* how the send ended (out), how often it released the busy flag, how many
\* chat requests it opened, and the state of the response body it reads
\* (channel): "none", "open" from getReader() on, "ended" or "failed" once read()
\* has said so; the code has no call that closes it.
IdleSend ==
    [pc |-> "idle", sid |-> NoSession, query |-> <<>>, created |-> None,
     dec |-> <<>>, buffer |-> <<>>,
     wire |-> LineStart, sentToks |-> <<>>, sentKinds |-> {}, sentEnd |-> "none",
     sentAfter |-> FALSE,
     out |-> "none", released |-> 0, opened |-> 0, channel |-> "none"]

Inputs == { <<>>, <<SP>>, <<SP, "q">> }

\* if (!query || streaming) return;
rejectsBusyOnly(query, flag) == flag

rejectsEmptyOnly(query, flag) == query = <<>>

rejects(query, flag) == query = <<>> \/ flag

userMessage(k, query) == Message(UserId(k), "user", query, FALSE)
aiMessage(k) == Message(AiId(k), "assistant", <<>>, TRUE)
failMessagePending(k) == Message(FailId(k), "assistant", <<Warn, CannotConnect>>, TRUE)
failMessage(k) == Message(FailId(k), "assistant", <<Warn, CannotConnect>>, FALSE)

\* the backend creates a session: its id, and the backend after it
srvCreate == [list |-> Append(srv.list, srv.made + 1), made |-> srv.made + 1]

\* ------------------------------------------------------------------ Init
InitRun == [pos |-> 0, dec |-> <<>>, buffer |-> <<>>, lines |-> <<>>, cuts |-> {}]

ClientInit ==
    /\ sessions = <<>>
    /\ activeId = NoSession
    /\ messages = <<makeWelcome>>
    /\ input = <<>>
    /\ streaming = FALSE
    /\ sends = [k \in SendIds |-> IdleSend]
    /\ nSends = 0
    /\ nChunks = 0
    /\ newResp = {}
    /\ delResp = {}
    /\ listReq = 1            \* the listSessions() of the mount effect
    /\ listResp = {}

Init ==
    /\ ClientInit
    /\ srv \in { [list |-> <<>>, made |-> 0], [list |-> <<1>>, made |-> 1] }
    /\ env = ClientEnv
    /\ text = <<>>
    /\ runA = InitRun
    /\ runB = InitRun

\* -------------------------------------------------------------- handleSend
\* Chat.jsx 131-181, up to the first await.
HandleSend ==
    LET query == trim(input)
        k == nSends + 1
    IN
    IF rejects(query, streaming) THEN UNCHANGED vars
    ELSE
      /\ nSends < env.sends
      /\ nSends' = k
      /\ input' = <<>>
      /\ streaming' = TRUE
      /\ IF activeId = NoSession
         THEN \* await createSession()
              /\ \/ /\ srv.made < env.sessions
                    /\ srv' = srvCreate
                    /\ sends' = [sends EXCEPT ![k] =
                          [IdleSend EXCEPT !.pc = "creating", !.query = query,
                                           !.created = Some(srv.made + 1)]]
                 \/ /\ srv' = srv
                    /\ sends' = [sends EXCEPT ![k] =
                          [IdleSend EXCEPT !.pc = "creating", !.query = query]]
              /\ UNCHANGED messages
         ELSE \* both messages appended, then streamChat opens the request
              /\ messages' = messages \o <<userMessage(k, query), aiMessage(k)>>
              /\ sends' = [sends EXCEPT ![k] =
                    [IdleSend EXCEPT !.pc = "fetching", !.query = query,
                                     !.sid = activeId, !.opened = 1]]
              /\ UNCHANGED srv
      /\ UNCHANGED <<sessions, activeId, nChunks, newResp, delResp, listReq, listResp,
                     splitVars>>

\* Chat.jsx 142-163: createSession() settles.
CreateSettles(k) ==
    /\ sends[k].pc = "creating"
    /\ IF sends[k].created # None
       THEN LET id == sends[k].created[1] IN
            /\ sessions' = <<id>> \o sessions
            /\ activeId' = id
            /\ messages' = messages \o <<userMessage(k, sends[k].query), aiMessage(k)>>
            /\ sends' = [sends EXCEPT ![k].pc = "fetching", ![k].sid = id,
                                      ![k].opened = 1]
            /\ UNCHANGED streaming
       ELSE /\ messages' = messages \o <<failMessage(k)>>
            /\ streaming' = FALSE
            /\ sends' = [sends EXCEPT ![k].pc = "returned", ![k].out = "createfail",
                                      ![k].released = sends[k].released + 1]
            /\ UNCHANGED <<sessions, activeId>>
    /\ UNCHANGED <<input, nSends, nChunks, netVars, splitVars>>

\* a streamChat that opened the request again after a failure
FetchSettlesRetry(k) ==
    /\ sends[k].pc = "fetching"
    /\ \/ sends' = [sends EXCEPT ![k].pc = "reading", ![k].channel = "open"]
       \/ /\ sends[k].opened < 3
          /\ sends' = [sends EXCEPT ![k].opened = sends[k].opened + 1]
    /\ UNCHANGED <<clientVars, nSends, nChunks, netVars, splitVars>>

\* client.js 117-139: the fetch settles.
FetchSettles(k) ==
    /\ sends[k].pc = "fetching"
    /\ \E res \in (IF env.name = "client" THEN FewResponses ELSE ChatResponses) :
         IF res.answered /\ res.ok
         THEN /\ sends' = [sends EXCEPT ![k].pc = "reading", ![k].channel = "open"]
              /\ UNCHANGED <<messages, streaming>>
         ELSE LET message == IF res.answered THEN backendError(res) ELSE <<CannotReach>>
                  st == onError(CbState(messages, streaming, sends[k].released),
                                AiId(k), message)
              IN /\ messages' = st.msgs
                 /\ streaming' = st.streaming
                 /\ sends' = [sends EXCEPT
                       ![k].pc = "returned",
                       ![k].out = IF res.answered THEN "rejected" ELSE "unreachable",
                       ![k].released = st.released]
    /\ UNCHANGED <<sessions, activeId, input, nSends, nChunks, netVars, splitVars>>

\* what the backend has sent up to its first done, error or null line
RECURSIVE noteSent(_, _)
noteSent(s, evs) ==
    IF evs = <<>> THEN s
    ELSE IF s.sentEnd # "none" THEN [s EXCEPT !.sentAfter = TRUE]
    ELSE noteSent(
           CASE Head(evs) = "tokenA" -> [s EXCEPT !.sentToks = Append(s.sentToks, "a")]
             [] Head(evs) = "tokenB" -> [s EXCEPT !.sentToks = Append(s.sentToks, "b")]
             [] Head(evs) \in {"strategy", "reasoning", "sources"} ->
                    [s EXCEPT !.sentKinds = s.sentKinds \cup {Head(evs)}]
             [] Head(evs) \in {"done", "error", "null"} -> [s EXCEPT !.sentEnd = Head(evs)]
             [] OTHER -> s,
           Tail(evs))

\* client.js 146-180: one turn of the read loop on a chunk.
ChunkArrives(k) ==
    /\ sends[k].pc = "reading"
    /\ nChunks < env.chunks
    /\ \E g \in NextChunks(sends[k].wire) :
       \E d \in {decode(sends[k].dec, g.c)} :
       \E sp \in {SplitBuffer(sends[k].buffer, d.chars)} :
       \E st \in {forLines(sp.lines, AiId(k),
                           CbState(messages, streaming, sends[k].released))} :
       \E s1 \in {noteSent([sends[k] EXCEPT !.wire = g.w], g.evs)} :
         /\ messages' = st.msgs
         /\ streaming' = st.streaming
         /\ listReq' = listReq + st.lists
         /\ sends' = [sends EXCEPT ![k] =
               [s1 EXCEPT !.dec = IF st.out = "more" THEN d.pending ELSE <<>>,
                          !.buffer = IF st.out = "more" THEN sp.buffer ELSE <<>>,
                          !.released = st.released,
                          !.out = IF st.out = "more" THEN "none" ELSE st.out,
                          !.pc = CASE st.out = "more" -> "reading"
                                   [] st.out = "threw" -> "threw"
                                   [] OTHER -> "returned"]]
    /\ nChunks' = nChunks + 1
    /\ UNCHANGED <<sessions, activeId, input, nSends, srv, newResp, delResp, listResp,
                   splitVars>>

\* a read loop that handed the carry buffer to the switch at the end of the body
ChannelEndsFlush(k) ==
    /\ sends[k].pc = "reading"
    /\ \E st \in {forLines(<<sends[k].buffer>>, AiId(k),
                            CbState(messages, streaming, sends[k].released))} :
         /\ messages' = st.msgs
         /\ streaming' = st.streaming
         /\ listReq' = listReq + st.lists
         /\ sends' = [sends EXCEPT ![k].pc = "returned", ![k].out = "eof",
                                   ![k].released = st.released,
                                   ![k].channel = "ended"]
    /\ UNCHANGED <<sessions, activeId, input, nSends, nChunks, srv, newResp, delResp,
                   listResp, splitVars>>

\* client.js 147-148: reader.read() reports the end of the body.
ChannelEnds(k) ==
    /\ sends[k].pc = "reading"
    /\ sends' = [sends EXCEPT ![k].pc = "returned", ![k].out = "eof",
                              ![k].channel = "ended"]
    /\ UNCHANGED <<clientVars, nSends, nChunks, netVars, splitVars>>

\* client.js 147: reader.read() rejects.
ReadFails(k) ==
    /\ sends[k].pc = "reading"
    /\ sends' = [sends EXCEPT ![k].pc = "threw", ![k].out = "readfail",
                              ![k].channel = "failed"]
    /\ UNCHANGED <<clientVars, nSends, nChunks, netVars, splitVars>>

\* InputBar.jsx 87 / Chat.jsx 425: the input text is edited (as long as a send
\* may still follow).
SetInput ==
    /\ nSends < env.sends
    /\ \E v \in Inputs : v # input /\ input' = v
    /\ UNCHANGED <<sessions, activeId, messages, streaming, sends, nSends, nChunks,
                   netVars, splitVars>>

\* ------------------------------------------------------------ session calls
\* answers to the user's session calls that are on their way
Pending == Cardinality(newResp) + Cardinality(delResp)

\* Chat.jsx 85-97, up to the await: the backend creates the session or fails.
HandleNewSession ==
    IF streaming THEN UNCHANGED vars
    ELSE /\ \/ /\ srv.made < env.sessions
               /\ Pending < MaxPending
               /\ srv' = srvCreate
               /\ newResp' = newResp \cup {srv.made + 1}
            \/ UNCHANGED <<srv, newResp>>
         /\ UNCHANGED <<clientVars, sends, nSends, nChunks, delResp, listReq, listResp,
                        splitVars>>

\* a continuation that put the new session at the end of the list
NewSessionSettlesAppend ==
    \E id \in newResp :
      /\ newResp' = newResp \ {id}
      /\ sessions' = Append(sessions, id)
      /\ activeId' = id
      /\ messages' = <<makeWelcome>>
      /\ input' = <<>>
      /\ UNCHANGED <<streaming, sends, nSends, nChunks, srv, delResp, listReq, listResp,
                     splitVars>>

\* Chat.jsx 88-93: createSession() has resolved.
NewSessionSettles ==
    \E id \in newResp :
      /\ newResp' = newResp \ {id}
      /\ sessions' = <<id>> \o sessions
      /\ activeId' = id
      /\ messages' = <<makeWelcome>>
      /\ input' = <<>>
      /\ UNCHANGED <<streaming, sends, nSends, nChunks, srv, delResp, listReq, listResp,
                     splitVars>>

SessionIds == { sessions[i] : i \in 1 .. Len(sessions) }

\* if (streaming || id === activeId) return;
selectRejectsBusyOnly(id, flag, active) == flag

selectRejects(id, flag, active) == flag \/ id = active

\* Chat.jsx 100-110
SelectSession(id) ==
    IF selectRejects(id, streaming, activeId) THEN UNCHANGED vars
    ELSE /\ activeId' = id
         /\ messages' = <<makeWelcome>>
         /\ input' = <<>>
         /\ UNCHANGED <<sessions, streaming, sends, nSends, nChunks, netVars, splitVars>>

\* a click on a session of the sidebar
HandleSelectSession == \E id \in SessionIds : SelectSession(id)

\* DELETE /sessions/:id on the backend: 204, or 404 for an id it does not hold
srvHolds(id) == \E i \in 1 .. Len(srv.list) : srv.list[i] = id
srvDelete(id) == [srv EXCEPT !.list = SelectSeq(srv.list, LAMBDA x : x # id)]

\* Chat.jsx 113-117, up to the await; the handler keeps the activeId it was
\* rendered with.
HandleDeleteSession ==
    \E id \in SessionIds :
      IF streaming THEN UNCHANGED vars
      ELSE /\ \/ /\ srvHolds(id)
                 /\ Pending < MaxPending
                 /\ srv' = srvDelete(id)
                 /\ delResp' = delResp \cup {[id |-> id, activeId |-> activeId]}
              \/ UNCHANGED <<srv, delResp>>
           /\ UNCHANGED <<clientVars, sends, nSends, nChunks, newResp, listReq, listResp,
                          splitVars>>

\* Chat.jsx 118-122: deleteSession(id) has resolved.
DeleteSettles ==
    \E r \in delResp :
      /\ delResp' = delResp \ {r}
      /\ sessions' = SelectSeq(sessions, LAMBDA x : x # r.id)
      /\ IF r.activeId = r.id
         THEN /\ activeId' = NoSession
              /\ messages' = <<makeWelcome>>
         ELSE UNCHANGED <<activeId, messages>>
      /\ UNCHANGED <<input, streaming, sends, nSends, nChunks, srv, newResp, listReq,
                     listResp, splitVars>>

\* GET /sessions on the backend: it answers with its list, or fails.
ListServed ==
    /\ listReq > 0
    /\ listReq' = listReq - 1
    /\ \/ listResp' = listResp \cup {srv.list}
       \/ UNCHANGED listResp
    /\ UNCHANGED <<clientVars, sends, nSends, nChunks, srv, newResp, delResp, splitVars>>

\* Chat.jsx 80 and 239: listSessions().then(setSessions)
ListSettles ==
    \E l \in listResp :
      /\ listResp' = listResp \ {l}
      /\ sessions' = l
      /\ UNCHANGED <<activeId, messages, input, streaming, sends, nSends, nChunks, srv,
                     newResp, delResp, listReq, splitVars>>

Next ==
    \/ HandleSend
    \/ \E k \in SendIds : CreateSettles(k)
    \/ \E k \in SendIds : FetchSettles(k)
    \/ \E k \in SendIds : ChunkArrives(k)
    \/ \E k \in SendIds : ChannelEnds(k)
    \/ \E k \in SendIds : ReadFails(k)
    \/ SetInput
    \/ HandleNewSession
    \/ NewSessionSettles
    \/ HandleSelectSession
    \/ HandleDeleteSession
    \/ DeleteSettles
    \/ ListServed
    \/ ListSettles

Spec == Init /\ [][Next]_vars

StreamInit ==
    /\ ClientInit
    /\ srv \in { [list |-> <<>>, made |-> 0], [list |-> <<1>>, made |-> 1] }
    /\ env = StreamEnv
    /\ text = <<>>
    /\ runA = InitRun
    /\ runB = InitRun

StreamSpec == StreamInit /\ [][Next]_vars

\* --------------------------------------------------------- session registry
\* The session operations on their own, from the fresh page or from the page
\* after one completed exchange in session 1.
AfterExchange ==
    /\ sessions = <<1>>
    /\ activeId = 1
    /\ messages = <<makeWelcome, userMessage(1, <<"q">>),
                    [aiMessage(1) EXCEPT !.content = <<"a">>, !.loading = FALSE]>>
    /\ input = <<>>
    /\ streaming = FALSE
    /\ sends = [k \in SendIds |->
                  IF k = 1
                  THEN [IdleSend EXCEPT !.pc = "returned", !.sid = 1, !.query = <<"q">>,
                                        !.sentToks = <<"a">>, !.sentEnd = "done",
                                        !.out = "done", !.released = 1, !.opened = 1,
                                        !.channel = "open"]
                  ELSE IdleSend]
    /\ nSends = 1
    /\ nChunks = 1
    /\ newResp = {}
    /\ delResp = {}
    /\ listReq = 1            \* the listSessions() of onDone
    /\ listResp = {}
    /\ srv = [list |-> <<1>>, made |-> 1]

RegistryInit ==
    /\ \/ ClientInit /\ srv = [list |-> <<>>, made |-> 0]
       \/ AfterExchange
    /\ env = RegistryEnv
    /\ text = <<>>
    /\ runA = InitRun
    /\ runB = InitRun

RegistryNext ==
    \/ HandleNewSession
    \/ NewSessionSettles
    \/ HandleSelectSession
    \/ HandleDeleteSession
    \/ DeleteSettles
    \/ ListServed
    \/ ListSettles

RegistrySpec == RegistryInit /\ [][RegistryNext]_vars

\* ------------------------------------------------------------ line splitter
\* client.js 147-155 on a byte stream cut into chunks in two ways.
Bytes == {LF, "x", B1, B2}
Texts == UNION { [1 .. n -> Bytes] : n \in 0 .. MaxTextLen }

\* the read loop's decoder and carry buffer after the next n bytes
Feed(run, n) ==
    LET d == decode(run.dec, SubSeq(text, run.pos + 1, run.pos + n))
        sp == SplitBuffer(run.buffer, d.chars)
    IN [pos |-> run.pos + n, dec |-> d.pending, buffer |-> sp.buffer,
        lines |-> run.lines \o sp.lines, cuts |-> run.cuts \cup {run.pos + n}]

FeedA ==
    /\ \E n \in 1 .. Len(text) - runA.pos : runA' = Feed(runA, n)
    /\ UNCHANGED <<clientVars, sends, nSends, nChunks, netVars, env, text, runB>>

FeedB ==
    /\ \E n \in 1 .. Len(text) - runB.pos : runB' = Feed(runB, n)
    /\ UNCHANGED <<clientVars, sends, nSends, nChunks, netVars, env, text, runA>>

SplitInit ==
    /\ ClientInit
    /\ srv = [list |-> <<>>, made |-> 0]
    /\ env = SplitEnv
    /\ text \in Texts
    /\ runA = InitRun
    /\ runB = InitRun

SplitNext == FeedA \/ FeedB

SplitSpec == SplitInit /\ [][SplitNext]_vars

\* ------------------------------------------------------------------ phases
\* The lifecycle phase a message record stands for: the placeholder is created
\* with loading set (Pending and Loading), a strategy event sets streaming, and
\* both flags are clear at the end, where only the content tells an error.
Phase(m) ==
    IF m.loading THEN "Loading"
    ELSE IF m.streaming THEN "Streaming"
    ELSE IF m.content # <<>> /\ Head(m.content) = Warn THEN "Errored"
    ELSE "Completed"

\* the assistant messages of send k that are in the list
AiMsgs(k) == { messages[i] : i \in { j \in 1 .. Len(messages) : messages[j].id = AiId(k) } }

\* toks occurs in content as one run
Holds(content, toks) ==
    \E i \in 0 .. Len(content) - Len(toks) : SubSeq(content, i + 1, i + Len(toks)) = toks

\* the message shows the events of the lines the backend completed, no others
Reflects(m, s) ==
    /\ (m.strategy # None) <=> ("strategy" \in s.sentKinds)
    /\ (m.reasoning # None) <=> ("reasoning" \in s.sentKinds)
    /\ (m.sources # Some(<<>>)) <=> ("sources" \in s.sentKinds)

\* ------------------------------------------------------------------ claims
\* C1: every accepted send that has ended, whatever its outcome (done, error,
\* session creation failure, request not opened, non-success status, channel
\* ended without a terminal event), has released busy exactly once.
C1_BusyReleasedOncePerSend ==
    \A k \in SendIds : sends[k].pc = "returned" => sends[k].released = 1

\* C2: when the channel ends before any done or error event, the assistant
\* message of the send ends Errored with a transport-error text, and the content
\* of the earlier token events is still in it.
C2_TruncatedStreamEndsErrored ==
    \A k \in SendIds : sends[k].out = "eof" =>
        \A m \in AiMsgs(k) :
            /\ ~m.loading /\ ~m.streaming
            /\ \E i \in 1 .. Len(m.content) : m.content[i] = Warn
            /\ Holds(m.content, sends[k].sentToks)

\* C3: while busy, no session creation, selection or deletion (its invocation or
\* the arrival of its answer) changes sessions, activeId or the message list.
C3_NoSessionChangeWhileBusy ==
    [][(streaming /\ (HandleNewSession \/ NewSessionSettles \/ HandleSelectSession
                      \/ HandleDeleteSession \/ DeleteSettles))
        => UNCHANGED <<sessions, activeId, messages>>]_vars

\* C4: at most one accepted send is in progress (suspended, or ended without
\* having released busy) at any time, whatever sessions the sends target.
InProgress(k) ==
    \/ sends[k].pc \in {"creating", "fetching", "reading"}
    \/ sends[k].pc \in {"returned", "threw"} /\ sends[k].released = 0

C4_AtMostOneSendInProgress ==
    Cardinality({ k \in SendIds : InProgress(k) }) <= 1

C4_Witness ==
    \E j, k \in SendIds :
        /\ sends[j].pc = "returned" /\ sends[j].released = 1
        /\ sends[k].pc = "reading"
        /\ sends[j].sid # NoSession /\ sends[k].sid # NoSession
        /\ sends[j].sid # sends[k].sid

\* C5: a send invoked while busy, or with an input that is empty after trimming,
\* changes nothing: not the message list, sessions, activeId, busy or the input,
\* and it opens no request.
C5_RejectedSendChangesNothing ==
    [][((streaming \/ trim(input) = <<>>) /\ HandleSend) => UNCHANGED vars]_vars

C5_Witness ==
    /\ streaming
    /\ trim(input) # <<>>
    /\ \E k \in SendIds : sends[k].pc = "reading" /\ AiMsgs(k) # {}

\* C6: two ways of cutting the same byte stream into chunks make the line
\* splitter emit the same sequence of lines.
C6_ChunkBoundaryInvariance ==
    (runA.pos = Len(text) /\ runB.pos = Len(text)) => runA.lines = runB.lines

C6_Witness ==
    /\ runA.pos = Len(text) /\ runB.pos = Len(text)
    /\ runA.cuts # runB.cuts
    /\ Len(runA.lines) >= 2
    /\ \E c \in runA.cuts : c < Len(text) /\ text[c] # LF /\ text[c + 1] # LF

\* C7: when the channel ends with a non-empty, unterminated fragment in the carry
\* buffer, no callback is dispatched for the fragment: busy is not released and
\* the message shows the events of the terminated lines only.
C7_TrailingFragmentDiscarded ==
    \A k \in SendIds : (sends[k].out = "eof" /\ sends[k].buffer # <<>>) =>
        /\ sends[k].released = 0
        /\ \A m \in AiMsgs(k) :
              /\ m.loading \/ m.streaming
              /\ m.content = sends[k].sentToks
              /\ Reflects(m, sends[k])

C7_Witness ==
    \E k \in SendIds :
        /\ sends[k].out = "eof"
        /\ sends[k].buffer \in { <<JDone>>, <<JError>> }
        /\ AiMsgs(k) # {}

\* C8: once the done line is handled, the content of the assistant message is the
\* texts of the token lines the backend sent before it, in the order sent.
C8_ContentIsTokensInOrder ==
    \A k \in SendIds : sends[k].sentEnd = "done" =>
        \A m \in AiMsgs(k) : m.content = sends[k].sentToks

C8_Witness ==
    \E k \in SendIds :
        /\ sends[k].sentEnd = "done"
        /\ \E m \in AiMsgs(k) : m.content = <<"b", "a">>

\* C9: a done event leaves the assistant message Completed whatever phase it was
\* in, a strategy event received or not; a message ended by an error stays Errored.
C9_DoneCompletes ==
    \A k \in SendIds : \A m \in AiMsgs(k) :
        /\ sends[k].sentEnd = "done" => Phase(m) = "Completed"
        /\ sends[k].out \in {"error", "unreachable", "rejected"} => Phase(m) = "Errored"

C9_Witness ==
    \E k \in SendIds :
        /\ sends[k].sentEnd = "done"
        /\ "strategy" \notin sends[k].sentKinds
        /\ \E m \in AiMsgs(k) : Phase(m) = "Completed"

\* C10: an error event leaves the assistant message Errored, and nothing the
\* backend sends after it, in the same chunk or later, is applied or read.
C10_ErrorIsFinal ==
    \A k \in SendIds : sends[k].sentEnd = "error" =>
        /\ sends[k].pc = "returned"
        /\ sends[k].released = 1
        /\ \A m \in AiMsgs(k) :
              /\ Phase(m) = "Errored"
              /\ m.content = <<Warn, "boom">>
              /\ Reflects(m, sends[k])

C10_Witness ==
    \E k \in SendIds :
        /\ sends[k].sentEnd = "error"
        /\ sends[k].sentAfter
        /\ AiMsgs(k) # {}

\* C11: a line that is none of the six event kinds (blank, not JSON, an unknown
\* type, or a value without a type such as a number or null) raises no error:
\* the read loop never ends with an exception on such a line.
C11_SkippedLinesRaiseNothing ==
    \A k \in SendIds : sends[k].out # "threw"

C13_BusyWhileNonTerminal ==
    (\E i \in 1 .. Len(messages) : Phase(messages[i]) \in {"Loading", "Streaming"})
        => streaming

C13_Witness ==
    /\ streaming
    /\ \E k \in SendIds : \E m \in AiMsgs(k) :
         Phase(m) = "Streaming" /\ m.content # <<>> /\ sends[k].pc = "reading"

\* C14: once a done or error event has been dispatched the response body is
\* closed: it is not left open.
C14_ChannelClosedAfterTerminal ==
    \A k \in SendIds :
        (sends[k].pc = "returned" /\ sends[k].out \in {"done", "error"})
            => sends[k].channel # "open"

\* C15: when a send accepted without an active session fails to create one, the
\* step appends exactly one Errored assistant message and no user message, opens
\* no chat request, leaves sessions and activeId unchanged and clears busy.
C15_CreateFailure ==
    [][\A k \in SendIds :
         (sends[k].pc = "creating" /\ sends[k].created = None /\ CreateSettles(k)) =>
           /\ Len(messages') = Len(messages) + 1
           /\ SubSeq(messages', 1, Len(messages)) = messages
           /\ messages'[Len(messages')].role = "assistant"
           /\ Phase(messages'[Len(messages')]) = "Errored"
           /\ sends'[k].opened = 0
           /\ sends'[k].pc = "returned"
           /\ UNCHANGED <<sessions, activeId>>
           /\ ~streaming']_vars

C15_Witness ==
    \E k \in SendIds :
        /\ sends[k].out = "createfail"
        /\ ~streaming
        /\ \E i \in 1 .. Len(messages) : messages[i].id = FailId(k)

\* C16: when the chat request cannot be opened or is answered with a non-success
\* status, the send stops with the message Errored, never Streaming, nothing of
\* the body read; the text carries the body's detail when there is one and the
\* status text otherwise.
C16_OpenFailure ==
    \A k \in SendIds : sends[k].out \in {"unreachable", "rejected"} =>
        /\ sends[k].pc = "returned"
        /\ sends[k].released = 1
        /\ sends[k].channel = "none"
        /\ sends[k].wire = LineStart /\ sends[k].sentToks = <<>>
        /\ sends[k].sentKinds = {} /\ sends[k].sentEnd = "none"
        /\ \A m \in AiMsgs(k) :
              /\ Phase(m) = "Errored"
              /\ m.strategy = None /\ m.reasoning = None /\ m.sources = Some(<<>>)
              /\ IF sends[k].out = "unreachable"
                 THEN m.content = <<Warn, CannotReach>>
                 ELSE m.content \in
                        { <<Warn, "Backend error ", "404", ": ", "Session not found">>,
                          <<Warn, "Backend error ", "500", ": ", "Internal Server Error">>,
                          <<Warn, "Backend error ", "502", ": ", "Bad Gateway">> }

C16_Witness ==
    \E k \in SendIds :
        /\ sends[k].out = "rejected"
        /\ \E m \in AiMsgs(k) :
             m.content = <<Warn, "Backend error ", "404", ": ", "Session not found">>

\* C17: no send is retried: every accepted send has opened at most one chat
\* request, and invocations that were not accepted have opened none.
C17_NoAutomaticRetry ==
    \A k \in SendIds :
        /\ sends[k].opened <= 1
        /\ k > nSends => sends[k].opened = 0

C17_Witness ==
    \E j, k \in SendIds :
        /\ j < k
        /\ sends[j].out \in {"unreachable", "rejected"}
        /\ sends[j].opened = 1
        /\ sends[k].opened = 1
        /\ \E m \in AiMsgs(j) : Phase(m) = "Errored"

\* C18: after a done event busy is cleared and the message Completed whatever
\* becomes of the refresh of the session list, and no step of the refresh
\* changes a message or busy; a refresh that fails changes the sessions neither.
C18_RefreshIsBestEffort ==
    /\ [](\A k \in SendIds : sends[k].sentEnd = "done" =>
            /\ sends[k].released = 1
            /\ sends[k].pc = "returned"
            /\ \A m \in AiMsgs(k) : Phase(m) = "Completed")
    /\ [][(ListServed \/ ListSettles) =>
            /\ UNCHANGED <<messages, streaming, activeId, input>>
            /\ ListServed => UNCHANGED sessions]_vars

C18_Witness ==
    /\ ~streaming
    /\ listReq = 2
    /\ \E k \in SendIds :
         /\ sends[k].sentEnd = "done"
         /\ \E m \in AiMsgs(k) : Phase(m) = "Completed"

\* C19: the answer to a session creation puts the new session in front of the
\* sessions already listed, in their order, makes it the active one and resets
\* the message list to the welcome message.
C19_CreatePrepends ==
    [][\A id \in newResp :
         newResp' = newResp \ {id} =>
           /\ sessions' = <<id>> \o sessions
           /\ activeId' = id
           /\ messages' = <<makeWelcome>>]_vars

C19_Witness ==
    /\ sessions = <<3, 1, 2>>
    /\ activeId = 3
    /\ nSends = 1
    /\ messages = <<makeWelcome>>

\* C20: selecting the active session changes neither activeId nor the message
\* list; selecting another one while not busy makes it active, replaces the
\* message list by the welcome message and leaves sessions unchanged.
C20_SelectSession ==
    [][\A id \in SessionIds :
         SelectSession(id) =>
           IF id = activeId THEN UNCHANGED <<activeId, messages, sessions>>
           ELSE ~streaming =>
                  /\ activeId' = id
                  /\ messages' = <<makeWelcome>>
                  /\ UNCHANGED sessions]_vars

C20_Witness ==
    /\ nSends = 1
    /\ activeId = 1
    /\ messages = <<makeWelcome>>
    /\ Len(sessions) >= 2

\* C21: the answer to a deletion removes the session from sessions, and clears
\* activeId and the message list exactly when the deleted session is the active
\* one at that moment; otherwise it leaves both unchanged.
C21_DeleteTakesEffect ==
    [][\A r \in delResp :
         delResp' = delResp \ {r} =>
           /\ sessions' = SelectSeq(sessions, LAMBDA x : x # r.id)
           /\ IF activeId = r.id
              THEN activeId' = NoSession /\ messages' = <<makeWelcome>>
              ELSE UNCHANGED <<activeId, messages>>]_vars

\* C22: after a response of strategy, optional reasoning, tokens, sources and
\* done, the message is Completed and holds the strategy, the subqueries, the
\* token texts and the sources of the events; a source with page n shows page
\* n + 1 and a source with the sentinel shows no page.
C22_WellFormedResponse ==
    \A k \in SendIds :
        (sends[k].sentEnd = "done" /\ {"strategy", "sources"} \subseteq sends[k].sentKinds) =>
            \A m \in AiMsgs(k) :
                /\ Phase(m) = "Completed"
                /\ m.strategy = Some("complex")
                /\ m.reasoning = IF "reasoning" \in sends[k].sentKinds
                                 THEN Some(<<"q">>) ELSE None
                /\ m.content = sends[k].sentToks
                /\ m.sources = Some(SourceList)
                /\ displayPage(m.sources[1][1]) = <<"p. ", 1>>
                /\ displayPage(m.sources[1][2]) = <<>>

C22_Witness ==
    \E k \in SendIds :
        /\ sends[k].sentEnd = "done"
        /\ {"strategy", "sources"} \subseteq sends[k].sentKinds
        /\ sends[k].sentToks # <<>>
        /\ AiMsgs(k) # {}

\* C23: a send accepted with an active session appends exactly two messages: a
\* Completed user message holding the input text as typed, then a non-terminal
\* assistant message with empty content.
C23_UserMessageIsLiteralInput ==
    [][(nSends' = nSends + 1 /\ activeId # NoSession) =>
         /\ Len(messages') = Len(messages) + 2
         /\ SubSeq(messages', 1, Len(messages)) = messages
         /\ messages'[Len(messages) + 1].role = "user"
         /\ Phase(messages'[Len(messages) + 1]) = "Completed"
         /\ messages'[Len(messages) + 1].content = input
         /\ messages'[Len(messages) + 2].role = "assistant"
         /\ Phase(messages'[Len(messages) + 2]) \in {"Loading", "Streaming"}
         /\ messages'[Len(messages) + 2].content = <<>>]_vars

\* C24: a token, reasoning or sources event applied to a message that is Loading
\* leaves it Streaming.
C24_PayloadEventsStartStreaming ==
    \A k \in SendIds :
        (/\ sends[k].pc = "reading"
         /\ sends[k].sentEnd = "none"
         /\ \/ sends[k].sentToks # <<>>
            \/ sends[k].sentKinds \cap {"reasoning", "sources"} # {})
        => \A m \in AiMsgs(k) : Phase(m) = "Streaming"

\* C25: in every step the phase of a message stays or moves forward: from
\* Loading to Streaming, Completed or Errored, from Streaming to Completed or
\* Errored, and from Completed or Errored nowhere.
PhaseMoves ==
    { <<"Loading", "Streaming">>, <<"Loading", "Completed">>, <<"Loading", "Errored">>,
      <<"Streaming", "Completed">>, <<"Streaming", "Errored">> }

C25_PhaseMovesForward ==
    [][\A i \in 1 .. Len(messages) : \A j \in 1 .. Len(messages') :
         messages'[j].id = messages[i].id =>
           \/ Phase(messages'[j]) = Phase(messages[i])
           \/ <<Phase(messages[i]), Phase(messages'[j])>> \in PhaseMoves]_vars

C25_Witness ==
    \E k \in SendIds :
        /\ sends[k].sentEnd = "error"
        /\ "strategy" \in sends[k].sentKinds
        /\ \E m \in AiMsgs(k) : Phase(m) = "Errored" /\ m.strategy # None

C27_ErrorReplacesContent ==
    \A k \in SendIds : sends[k].sentEnd = "error" =>
        \A m \in AiMsgs(k) :
            /\ m.content = <<Warn, "boom">>
            /\ "strategy" \in sends[k].sentKinds => m.strategy = Some("complex")
            /\ "reasoning" \in sends[k].sentKinds => m.reasoning = Some(<<"q">>)
            /\ "sources" \in sends[k].sentKinds => m.sources = Some(SourceList)

C27_Witness ==
    \E k \in SendIds :
        /\ sends[k].sentEnd = "error"
        /\ sends[k].sentToks # <<>>
        /\ sends[k].sentKinds # {}
        /\ AiMsgs(k) # {}

\* C28: once every backend call has answered, sessions holds exactly the
\* sessions the backend holds: none that was deleted, and every one this client
\* created.
Quiet ==
    /\ newResp = {} /\ delResp = {} /\ listReq = 0 /\ listResp = {}
    /\ \A k \in SendIds : sends[k].pc \notin {"creating", "fetching", "reading"}

C28_SessionsConverge ==
    Quiet => SessionIds = { srv.list[i] : i \in 1 .. Len(srv.list) }

\* C29: activeId is unset or the id of a session in sessions.
C29_ActiveIdIsListed ==
    activeId = NoSession \/ activeId \in SessionIds

\* C30: when a read of the response body fails, the send ends with the message
\* Errored and busy released.
C30_ReadFailureEndsSend ==
    \A k \in SendIds : sends[k].out = "readfail" =>
        /\ sends[k].released = 1
        /\ \A m \in AiMsgs(k) : Phase(m) = "Errored"

====
